---------------------------- MODULE Spec2Model ----------------------------
(***************************************************************************)
(* Session state machine of the two ChessGame components of                *)
(* src/src/ChessGame.jsx:                                                  *)
(*   variant 1 (lines 1-413):   the rules engine object is React state and *)
(*                              is rebuilt by replaying its verbose        *)
(*                              history on every mutation;                 *)
(*   variant 2 (lines 414-946): the rules engine lives in a ref, the       *)
(*                              displayed position is the `fen` state, and *)
(*                              promotions go through pendingPromotion.    *)
(*                                                                         *)
(* The rules engine (chess.js) is an external library.  It is modelled as  *)
(* chess on a 3 x 4 board with kings, pawns (single push, diagonal         *)
(* capture, promotion on the far rank), knights, bishops, rooks and        *)
(* queens, with check, checkmate, stalemate and insufficient material.     *)
(* Castling, en passant, the double pawn push, the fifty-move rule and     *)
(* threefold repetition are not modelled.                                  *)
(***************************************************************************)
EXTENDS Integers, Sequences, FiniteSets, TLC

(***************************************************************************)
(* Bounds                                                                  *)
(***************************************************************************)
\* Moves are accepted only while the move log holds fewer entries.
MaxPlies == 2

(***************************************************************************)
(* Board geometry                                                          *)
(***************************************************************************)
FileNames == <<"a", "b", "c">>
RankNames == <<"1", "2", "3", "4">>
FileRange == 1..Len(FileNames)
RankRange == 1..Len(RankNames)

SqName(f, r) == FileNames[f] \o RankNames[r]

Squares == {SqName(f, r) : f \in FileRange, r \in RankRange}

FileIdx == [sq \in Squares |->
              CHOOSE f \in FileRange : \E r \in RankRange : SqName(f, r) = sq]
RankIdx == [sq \in Squares |->
              CHOOSE r \in RankRange : \E f \in FileRange : SqName(f, r) = sq]

Abs(x) == IF x < 0 THEN -x ELSE x
Sgn(x) == IF x < 0 THEN -1 ELSE IF x > 0 THEN 1 ELSE 0
Max(x, y) == IF x < y THEN y ELSE x

\* JavaScript null / undefined, for square-, colour- and piece-valued fields.
Null == "null"

Colors == {"w", "b"}
Other(c) == IF c = "w" THEN "b" ELSE "w"
PieceTypes == {"p", "n", "b", "r", "q", "k"}
NoPiece == [type |-> Null, color |-> Null]
Pc(t, c) == [type |-> t, color |-> c]

Forward(c) == IF c = "w" THEN 1 ELSE -1
LastRank(c) == IF c = "w" THEN Len(RankNames) ELSE 1

(***************************************************************************)
(* Rules engine: the position the program starts from (new Chess())        *)
(***************************************************************************)
StartBoard ==
  [sq \in Squares |->
     CASE sq = "a1" -> Pc("k", "w")
       [] sq = "a3" -> Pc("p", "w")
       [] sq = "c4" -> Pc("k", "b")
       [] sq = "b4" -> Pc("n", "b")
       [] OTHER -> NoPiece]

NewChess == [board |-> StartBoard, turn |-> "w", history |-> <<>>]

(***************************************************************************)
(* Rules engine: attacks and legal moves                                   *)
(***************************************************************************)
Between(from, to) ==
  LET df == FileIdx[to] - FileIdx[from]
      dr == RankIdx[to] - RankIdx[from]
      n  == Max(Abs(df), Abs(dr))
  IN {SqName(FileIdx[from] + k * Sgn(df), RankIdx[from] + k * Sgn(dr)) :
        k \in 1..(n - 1)}

PathClear(board, from, to) ==
  \A sq \in Between(from, to) : board[sq] = NoPiece

Attacks(board, from, to) ==
  LET p  == board[from]
      df == Abs(FileIdx[to] - FileIdx[from])
      dr == Abs(RankIdx[to] - RankIdx[from])
      straight == (df = 0 \/ dr = 0) /\ PathClear(board, from, to)
      diagonal == df = dr /\ PathClear(board, from, to)
  IN /\ from # to
     /\ CASE p.type = "k" -> Max(df, dr) = 1
          [] p.type = "n" -> {df, dr} = {1, 2}
          [] p.type = "r" -> straight
          [] p.type = "b" -> diagonal
          [] p.type = "q" -> straight \/ diagonal
          [] p.type = "p" -> /\ df = 1
                             /\ RankIdx[to] - RankIdx[from] = Forward(p.color)
          [] OTHER -> FALSE

Attacked(board, sq, by) ==
  \E from \in Squares : board[from].color = by /\ Attacks(board, from, sq)

HasKing(board, c) == \E sq \in Squares : board[sq] = Pc("k", c)
KingSquare(board, c) == CHOOSE sq \in Squares : board[sq] = Pc("k", c)

InCheckBoard(board, c) ==
  HasKing(board, c) /\ Attacked(board, KingSquare(board, c), Other(c))

MoveBoard(board, from, to, promo) ==
  [board EXCEPT ![from] = NoPiece,
                ![to] = IF promo # Null THEN Pc(promo, board[from].color)
                        ELSE board[from]]

PseudoLegal(board, from, to) ==
  LET p == board[from]
  IN IF p.type = "p"
     THEN \/ /\ FileIdx[to] = FileIdx[from]
             /\ RankIdx[to] = RankIdx[from] + Forward(p.color)
             /\ board[to] = NoPiece
          \/ /\ Attacks(board, from, to)
             /\ board[to].color = Other(p.color)
     ELSE Attacks(board, from, to) /\ board[to].color # p.color

PromotionPieces == {"q", "r", "b", "n"}

IsPromotion(board, from, to) ==
  board[from].type = "p" /\ RankIdx[to] = LastRank(board[from].color)

\* chess.moves({ verbose: true }) without the san field: the legal moves of
\* the side to move.
BoardMoves(board, c) ==
  UNION {
    IF /\ board[from].color = c
       /\ PseudoLegal(board, from, to)
       /\ ~InCheckBoard(MoveBoard(board, from, to, Null), c)
    THEN {[color |-> c, from |-> from, to |-> to, piece |-> board[from].type,
           captured |-> board[to].type, promotion |-> pr] :
            pr \in IF IsPromotion(board, from, to) THEN PromotionPieces
                   ELSE {Null}}
    ELSE {} : from \in Squares, to \in Squares}

Moves(g) == BoardMoves(g.board, g.turn)

\* chess.moves({ square, verbose: true })
MovesFrom(g, square) == {m \in Moves(g) : m.from = square}

(***************************************************************************)
(* Rules engine: status predicates                                         *)
(***************************************************************************)
InCheck(g) == InCheckBoard(g.board, g.turn)
IsCheckmate(g) == Moves(g) = {} /\ InCheck(g)
IsStalemate(g) == Moves(g) = {} /\ ~InCheck(g)

IsInsufficientMaterial(g) ==
  LET others == {sq \in Squares : g.board[sq].type \notin {Null, "k"}}
  IN \/ others = {}
     \/ /\ Cardinality(others) = 1
        /\ \A sq \in others : g.board[sq].type \in {"b", "n"}

IsDraw(g) == IsInsufficientMaterial(g) \/ IsStalemate(g)

\* An engine that never reports the end of the game.
NeverGameOver(g) == FALSE

IsGameOver(g) == IsDraw(g) \/ IsCheckmate(g)

(***************************************************************************)
(* Rules engine: standard algebraic notation                               *)
(***************************************************************************)
Upper(t) ==
  CASE t = "n" -> "N" [] t = "b" -> "B" [] t = "r" -> "R"
    [] t = "q" -> "Q" [] t = "k" -> "K" [] OTHER -> ""

\* rivals: the other legal moves of a piece of the same type to the same square
DisambiguatorAmong(rivals, m) ==
  IF m.piece = "p" \/ rivals = {} THEN ""
  ELSE IF \A x \in rivals : FileIdx[x.from] # FileIdx[m.from]
       THEN FileNames[FileIdx[m.from]]
  ELSE IF \A x \in rivals : RankIdx[x.from] # RankIdx[m.from]
       THEN RankNames[RankIdx[m.from]]
  ELSE m.from

Disambiguator(board, m) ==
  DisambiguatorAmong({x \in BoardMoves(board, m.color) :
                        x.piece = m.piece /\ x.to = m.to /\ x.from # m.from},
                     m)

CheckSuffix(after, them) ==
  IF InCheckBoard(after, them)
  THEN (IF BoardMoves(after, them) = {} THEN "#" ELSE "+")
  ELSE ""

San(board, m) ==
     (IF m.piece = "p"
      THEN (IF m.captured # Null THEN FileNames[FileIdx[m.from]] ELSE "")
      ELSE Upper(m.piece) \o Disambiguator(board, m))
     \o (IF m.captured # Null THEN "x" ELSE "")
     \o m.to
     \o (IF m.promotion # Null THEN "=" \o Upper(m.promotion) ELSE "")
     \o CheckSuffix(MoveBoard(board, m.from, m.to, m.promotion), Other(m.color))

NoMove == [color |-> Null, from |-> Null, to |-> Null, piece |-> Null,
           captured |-> Null, promotion |-> Null, san |-> ""]

WithSan(board, m) ==
  [color |-> m.color, from |-> m.from, to |-> m.to, piece |-> m.piece,
   captured |-> m.captured, promotion |-> m.promotion, san |-> San(board, m)]

(***************************************************************************)
(* Rules engine: move, undo, history, fen, pgn                             *)
(***************************************************************************)
\* The engine's answer to a rejected move / undo, and to an accepted move m.
Rejected(g) == [ok |-> FALSE, game |-> g, move |-> NoMove]

Made(g, m) ==
  [ok |-> TRUE,
   game |-> [board |-> MoveBoard(g.board, m.from, m.to, m.promotion),
             turn |-> Other(g.turn),
             history |-> Append(g.history, m)],
   move |-> m]

MoveAmong(g, cands) ==
  IF cands = {} THEN Rejected(g)
  ELSE Made(g, WithSan(g.board, CHOOSE x \in cands : TRUE))

\* chess.move({ from, to, promotion }): the promotion piece is compared only
\* for promotion moves.  ok = FALSE is the engine's rejection.
EngineMoveIn(ms, g, from, to, promo) ==
  MoveAmong(g, {m \in ms : /\ m.from = from
                           /\ m.to = to
                           /\ (m.promotion = Null \/ m.promotion = promo)})

EngineMove(g, from, to, promo) == EngineMoveIn(Moves(g), g, from, to, promo)

\* chess.undo()
Unmade(g, m) ==
  [ok |-> TRUE,
   game |-> [board |-> [g.board EXCEPT
                          ![m.from] = Pc(m.piece, m.color),
                          ![m.to] = IF m.captured # Null
                                    THEN Pc(m.captured, Other(m.color))
                                    ELSE NoPiece],
             turn |-> m.color,
             history |-> SubSeq(g.history, 1, Len(g.history) - 1)],
   move |-> m]

EngineUndo(g) ==
  IF g.history = <<>> THEN Rejected(g)
  ELSE Unmade(g, g.history[Len(g.history)])

\* chess.fen(): placement and side to move; the history is not part of it.
Fen(g) == [kind |-> "fen", board |-> g.board, turn |-> g.turn]
BadFen == [kind |-> "badfen", board |-> StartBoard, turn |-> Null]
StartFen == Fen(NewChess)

\* chess.load(fen) of a valid fen: the position, with no history.
LoadFen(f) == [board |-> f.board, turn |-> f.turn, history |-> <<>>]

RECURSIVE RootOf(_)
\* The position the engine's history starts from.
RootOf(g) == IF g.history = <<>> THEN g ELSE RootOf(EngineUndo(g).game)

\* chess.pgn(): the SetUp/FEN header position and the SAN of each move.
Pgn(g) == [kind |-> "pgn", setup |-> Fen(RootOf(g)),
           sans |-> [i \in 1..Len(g.history) |-> g.history[i].san]]

\* chess.move(san)
EngineMoveSan(g, san) ==
  MoveAmong(g, {m \in Moves(g) : San(g.board, m) = san})

RECURSIVE ReplaySans(_, _)
\* chess.loadPgn's move loop: stops at the first move the engine rejects,
\* keeping the moves made before it.
RECURSIVE ReplaySansFrom(_, _)
ReplaySans(g, sans) ==
  IF sans = <<>> THEN [ok |-> TRUE, game |-> g]
  ELSE ReplaySansFrom(EngineMoveSan(g, Head(sans)), Tail(sans))

ReplaySansFrom(r, rest) ==
  IF r.ok THEN ReplaySans(r.game, rest) ELSE [ok |-> FALSE, game |-> r.game]

LoadPgn(p) == ReplaySans(LoadFen(p.setup), p.sans)

(***************************************************************************)
(* JavaScript values held in the list-valued state and in the storage slot *)
(***************************************************************************)
\* An array; a truthy value that is no array and has no length (a number,
\* an object, true); a non-empty string; a missing or falsy value.
Arr(s) == [kind |-> "array", items |-> s]
JsNumber == [kind |-> "number", items |-> <<>>]
JsString == [kind |-> "string", items |-> <<>>]
Missing == [kind |-> "undefined", items |-> <<>>]
NoFen == [kind |-> "undefined", board |-> StartBoard, turn |-> Null]
NoPgn == [kind |-> "undefined", setup |-> StartFen, sans |-> <<>>]

IsArr(v) == v.kind = "array"
\* v || []
OrEmpty(v) == IF v.kind = "undefined" THEN Arr(<<>>) ELSE v

\* sessionStorage slot "chessGame": absent, a string JSON.parse rejects, or
\* the text of a JSON object with these fields.
STORAGE_KEY == "chessGame"

SlotOf(k, h, f, p, l, cw, cb) ==
  [kind |-> k, history |-> h, fen |-> f, pgn |-> p, moveLog |-> l,
   capturedWhite |-> cw, capturedBlack |-> cb]

Json(h, f, p, l, cw, cb) == SlotOf("json", h, f, p, l, cw, cb)
SlotAbsent ==
  SlotOf("absent", Missing, NoFen, NoPgn, Missing, Missing, Missing)
SlotGarbage ==
  SlotOf("garbage", Missing, NoFen, NoPgn, Missing, Missing, Missing)

\* JSON.parse(saved) returns (does not throw)
Parses(s) == s.kind = "json"

(***************************************************************************)
(* Component state                                                         *)
(***************************************************************************)
VARIABLES
  variant,          \* 1: lines 1-413, 2: lines 414-946
  engineThrows,     \* the installed engine rejects by throwing (else by null)
  phase,            \* "unmounted", "mounted", "crashed" (a render threw)
  chess,            \* variant 1: the `game` state; variant 2: chessRef.current
  fen,              \* variant 2: the `fen` state given to the board widget
  moveLog,
  capturedWhite,
  capturedBlack,
  selectedSquare,
  legalMoves,       \* the set of squares of the legalMoves array
  pendingPromotion,
  slot,             \* sessionStorage[STORAGE_KEY]
  effectPending,    \* a render changed a dependency of the persistence effect
  lastOp            \* the handler that ran last and how it ended

session == <<chess, fen, moveLog, capturedWhite, capturedBlack>>
selection == <<selectedSquare, legalMoves>>
build == <<variant, engineThrows>>
vars == <<variant, engineThrows, phase, chess, fen, moveLog, capturedWhite,
          capturedBlack, selectedSquare, legalMoves, pendingPromotion, slot,
          effectPending, lastOp>>

NoPending == [from |-> Null, to |-> Null, color |-> Null]

\* What the board widget shows (lines 339 and 857).
Position == IF variant = 1 THEN Fen(chess) ELSE fen

\* A handler call: its name, the branch it took, the value it returned,
\* whether an exception left it, the move it made or undid, and the position
\* shown when it was called.
Op(op, outcome, ret, threw, move) ==
  [op |-> op, outcome |-> outcome, ret |-> ret, threw |-> threw, move |-> move,
   was |-> Position]

(***************************************************************************)
(* Storage contents the component may find at its first mount              *)
(***************************************************************************)
IllegalMove ==
  [color |-> "w", from |-> "a1", to |-> "c4", piece |-> "k",
   captured |-> Null, promotion |-> Null, san |-> "Kc4"]
FirstMove == EngineMove(NewChess, "a1", "b2", Null).move

\* {}
SlotEmptyObject == Json(Missing, NoFen, NoPgn, Missing, Missing, Missing)
\* logs of a game, position data that cannot be restored
SlotNoPosition ==
  Json(JsNumber, BadFen, NoPgn, Arr(<<"White: Kb2">>), Arr(<<"n">>), Arr(<<>>))
\* a history / pgn whose second move the engine rejects
SlotBadMove ==
  Json(Arr(<<FirstMove, IllegalMove>>), NoFen,
       [kind |-> "pgn", setup |-> StartFen, sans |-> <<"Kb2", "Kc4">>],
       Arr(<<"White: Kb2", "Black: Kc4">>), Arr(<<>>), Arr(<<>>))
\* a move log that is no list
SlotLogNotList ==
  Json(Arr(<<>>), StartFen, NoPgn, JsNumber, Arr(<<>>), Arr(<<>>))
SlotLogString ==
  Json(Arr(<<>>), StartFen, NoPgn, JsString, Arr(<<>>), Arr(<<>>))
\* a capture list that is no list, and one whose entry is no piece type
SlotCapturesNotList ==
  Json(Arr(<<>>), StartFen, NoPgn, Arr(<<>>), JsNumber, Arr(<<>>))
SlotBadPieceCode ==
  Json(Arr(<<>>), StartFen, NoPgn, Arr(<<>>), Arr(<<>>), Arr(<<"x">>))

InitSlots ==
  {SlotAbsent, SlotGarbage, SlotEmptyObject, SlotNoPosition, SlotBadMove,
   SlotLogNotList, SlotLogString, SlotCapturesNotList, SlotBadPieceCode}

(***************************************************************************)
(* Mount: the useState initializers and the first render                   *)
(***************************************************************************)
RECURSIVE ReplayMoves(_, _, _)
\* moves.forEach((m) => chess.move(m)): a rejected move throws out of the
\* loop, or (an engine that returns null) is skipped.
RECURSIVE ReplayMovesFrom(_, _, _)
ReplayMoves(g, moves, throws) ==
  IF moves = <<>> THEN [threw |-> FALSE, game |-> g]
  ELSE ReplayMovesFrom(EngineMove(g, Head(moves).from, Head(moves).to,
                                  Head(moves).promotion),
                       Tail(moves), throws)

ReplayMovesFrom(r, rest, throws) ==
  IF ~r.ok /\ throws THEN [threw |-> TRUE, game |-> r.game]
  ELSE ReplayMoves(r.game, rest, throws)

\* variant 1, lines 8-21
Replayed(r) == IF r.threw THEN NewChess ELSE r.game

\* An initializer that ignores the saved history.
InitGameIgnoringSlot(saved, throws) == NewChess

InitGame(saved, throws) ==
  IF ~Parses(saved) \/ ~IsArr(saved.history) THEN NewChess
  ELSE Replayed(ReplayMoves(NewChess, saved.history.items, throws))


\* chessRef.current and chessRef.current.fen()
Shown(g) == [chess |-> g, fen |-> Fen(g)]

\* variant 2, lines 422-442: the engine left in chessRef and the fen state
InitFen(saved, throws) ==
  IF ~Parses(saved) THEN [chess |-> NewChess, fen |-> StartFen]
  ELSE IF saved.fen.kind # "undefined"
  THEN IF saved.fen.kind = "fen"
       THEN [chess |-> LoadFen(saved.fen), fen |-> saved.fen]
       ELSE IF throws THEN [chess |-> NewChess, fen |-> StartFen]
       ELSE [chess |-> NewChess, fen |-> saved.fen]
  ELSE IF saved.pgn.kind # "undefined"
  THEN Shown(LoadPgn(saved.pgn).game)
  ELSE [chess |-> NewChess, fen |-> StartFen]

\* An initializer's result: the value, or an exception leaving it.
Returned(v) == [threw |-> FALSE, value |-> v]
Thrown(v) == [threw |-> TRUE, value |-> v]

\* An initializer that parses the slot outside any try block.
InitListUncaught(saved, v) ==
  IF saved.kind = "absent" THEN Returned(Arr(<<>>))
  ELSE IF ~Parses(saved) THEN Thrown(Arr(<<>>))
  ELSE Returned(OrEmpty(v))

\* lines 23-58 and 444-478: JSON.parse(saved).<field> || [], and [] from
\* the catch block
InitList(saved, v) ==
  IF saved.kind = "absent" THEN Returned(Arr(<<>>))
  ELSE IF ~Parses(saved) THEN Returned(Arr(<<>>))
  ELSE Returned(OrEmpty(v))

\* symbols[piece][color] (lines 73-87, 513-527) throws
PieceSymbolThrows(piece) == piece \notin PieceTypes

\* captured.map((p, i) => pieceSymbol(...)) (lines 354, 358, 870, 874) throws
CaptureRowThrows(captured) ==
  \/ ~IsArr(captured)
  \/ \E i \in DOMAIN captured.items : PieceSymbolThrows(captured.items[i])

\* moveLog.length > 0 ? moveLog.map(...) (lines 394-399, 902-907) throws
MoveListThrows(log) == log.kind = "string"

RenderThrows(log, cw, cb) ==
  MoveListThrows(log) \/ CaptureRowThrows(cw) \/ CaptureRowThrows(cb)

\* The values the state holds once the component is gone.
Gone(ph, op) ==
  /\ phase' = ph
  /\ chess' = NewChess
  /\ fen' = StartFen
  /\ moveLog' = Arr(<<>>)
  /\ capturedWhite' = Arr(<<>>)
  /\ capturedBlack' = Arr(<<>>)
  /\ selectedSquare' = Null
  /\ legalMoves' = {}
  /\ pendingPromotion' = NoPending
  /\ effectPending' = FALSE
  /\ lastOp' = op

Mount ==
  /\ phase = "unmounted"
  /\ \E pos \in {IF variant = 1
                  THEN [chess |-> InitGame(slot, engineThrows), fen |-> StartFen]
                  ELSE InitFen(slot, engineThrows)},
        log \in {InitList(slot, slot.moveLog)},
        cw \in {InitList(slot, slot.capturedWhite)},
        cb \in {InitList(slot, slot.capturedBlack)} :
        IF \/ log.threw \/ cw.threw \/ cb.threw
           \/ RenderThrows(log.value, cw.value, cb.value)
        THEN Gone("crashed", Op("mount", "crash", Null,
                                log.threw \/ cw.threw \/ cb.threw, NoMove))
        ELSE /\ phase' = "mounted"
             /\ chess' = pos.chess
             /\ fen' = pos.fen
             /\ moveLog' = log.value
             /\ capturedWhite' = cw.value
             /\ capturedBlack' = cb.value
             /\ selectedSquare' = Null
             /\ legalMoves' = {}
             /\ pendingPromotion' = NoPending
             /\ effectPending' = TRUE
             /\ lastOp' = Op("mount", "mounted", Null, FALSE, NoMove)
  /\ UNCHANGED <<build, slot>>

\* The tab reloads: the component goes, the slot stays.
Reload ==
  /\ phase \in {"mounted", "crashed"}
  /\ ~effectPending
  /\ Gone("unmounted",
          Op("reload", IF phase = "mounted" THEN "unmounted" ELSE "discarded",
             Null, FALSE, NoMove))
  /\ UNCHANGED <<build, slot>>

(***************************************************************************)
(* Persistence effect (lines 64-70 and 485-500)                            *)
(***************************************************************************)
\* A serialization that leaves the capture lists out.
SerializedWithoutCaptures ==
  IF variant = 1
  THEN Json(Arr(chess.history), NoFen, NoPgn, moveLog, Missing, Missing)
  ELSE Json(Missing, fen, Pgn(chess), moveLog, Missing, Missing)

Serialized ==
  IF variant = 1
  THEN Json(Arr(chess.history), NoFen, NoPgn,
            moveLog, capturedWhite, capturedBlack)
  ELSE Json(Missing, fen, Pgn(chess), moveLog, capturedWhite, capturedBlack)

PersistEffect ==
  /\ phase = "mounted"
  /\ effectPending
  /\ slot' = Serialized
  /\ effectPending' = FALSE
  /\ UNCHANGED <<build, phase, session, selection, pendingPromotion, lastOp>>

(***************************************************************************)
(* Recording an accepted move (lines 108-124, 172-188, 529-543)            *)
(***************************************************************************)
\* `${move.color === "w" ? "White" : "Black"}: ${move.san}`
LogEntry(move) ==
  (IF move.color = "w" THEN "White" ELSE "Black") \o ": " \o move.san

\* [...list, x]
Appended(list, x) == Arr(Append(list.items, x))
\* An undo that keeps the whole list.
Unsliced(list) == list

\* list.slice(0, -1)
Sliced(list) ==
  IF list.items = <<>> THEN list
  ELSE Arr(SubSeq(list.items, 1, Len(list.items) - 1))

\* [...log, x] and log.slice(0, -1) throw when log is no array
UpdaterThrows(log) == ~IsArr(log)

CapturedWhiteAfter(cw, move) ==
  IF move.captured # Null /\ move.color = "w"
  THEN Appended(cw, move.captured) ELSE cw

CapturedBlackAfter(cb, move) ==
  IF move.captured # Null /\ move.color # "w"
  THEN Appended(cb, move.captured) ELSE cb

\* A recording that leaves the selection and its highlight in place.
RecordMoveKeepingSelection(move) ==
  /\ moveLog' = Appended(moveLog, LogEntry(move))
  /\ capturedWhite' = CapturedWhiteAfter(capturedWhite, move)
  /\ capturedBlack' = CapturedBlackAfter(capturedBlack, move)
  /\ UNCHANGED selection

RecordMoveEffects(move) ==
  /\ moveLog' = Appended(moveLog, LogEntry(move))
  /\ capturedWhite' = CapturedWhiteAfter(capturedWhite, move)
  /\ capturedBlack' = CapturedBlackAfter(capturedBlack, move)
  /\ selectedSquare' = Null
  /\ legalMoves' = {}

\* The model accepts a move only while the log is below its bound.
CanGrow == ~IsArr(moveLog) \/ Len(moveLog.items) < MaxPlies

\* A handler that returns having highlighted every square.
QuietHighlighting(op) ==
  /\ lastOp' = op
  /\ legalMoves' = Squares
  /\ UNCHANGED <<phase, session, selectedSquare, pendingPromotion, effectPending>>

\* A handler that returns having set no state.
Quiet(op) ==
  /\ lastOp' = op
  /\ UNCHANGED <<phase, session, selection, pendingPromotion, effectPending>>

\* A move the engine accepted: the state updates and the render after them.
\* The move log updater throws in that render when the log is no array.
CommitMove(g, f, move, pending, op) ==
  /\ CanGrow
  /\ IF UpdaterThrows(moveLog)
     THEN Gone("crashed", [op EXCEPT !.outcome = "crash"])
     ELSE /\ chess' = g
          /\ fen' = f
          /\ RecordMoveEffects(move)
          /\ pendingPromotion' = pending
          /\ effectPending' = TRUE
          /\ lastOp' = op
          /\ UNCHANGED phase

\* const moves = game.moves({ square, verbose: true }).map((m) => m.to)
TargetsFrom(g, square) == {m.to : m \in MovesFrom(g, square)}

Select(square, op) ==
  /\ selectedSquare' = square
  /\ legalMoves' = TargetsFrom(chess, square)
  /\ lastOp' = op
  /\ UNCHANGED <<phase, session, pendingPromotion, effectPending>>

\* A deselection that leaves the highlighted targets.
DeselectKeepingTargets(op) ==
  /\ selectedSquare' = Null
  /\ lastOp' = op
  /\ UNCHANGED <<phase, session, legalMoves, pendingPromotion, effectPending>>

Deselect(op) ==
  /\ selectedSquare' = Null
  /\ legalMoves' = {}
  /\ lastOp' = op
  /\ UNCHANGED <<phase, session, pendingPromotion, effectPending>>

(***************************************************************************)
(* Variant 1 handlers (lines 90-227)                                       *)
(***************************************************************************)
\* const next = new Chess(); prev.history({ verbose: true }).forEach(...)
Rebuild(prev) == ReplayMoves(NewChess, prev.history, FALSE).game

\* lines 90-132.  `eager`: React ran the setGame updater inside the call, so
\* that moveMade was set before onDrop returned.
OnDrop1 ==
  /\ phase = "mounted" /\ variant = 1 /\ ~effectPending
  /\ \E next \in {Rebuild(chess)} :
     \E over \in {IsGameOver(next)}, ms \in {Moves(next)} :
     \E sourceSquare \in Squares, targetSquare \in Squares :
       \E piece \in {next.board[sourceSquare]},
          r \in {EngineMoveIn(ms, next, sourceSquare, targetSquare, "q")} :
          IF over \/ piece = NoPiece \/ piece.color # next.turn
          THEN Quiet(Op("onDrop", "guard", "false", FALSE, NoMove))
          ELSE IF r.ok
          THEN \E eager \in BOOLEAN :
                 CommitMove(r.game, fen, r.move, pendingPromotion,
                            Op("onDrop", "committed",
                               IF eager THEN "true" ELSE "false", FALSE, r.move))
          ELSE IF engineThrows
          THEN \* next.move throws inside the updater: the render throws
               Gone("crashed", Op("onDrop", "rejected", "false", FALSE, NoMove))
          ELSE Quiet(Op("onDrop", "rejected", "false", FALSE, NoMove))
  /\ UNCHANGED <<build, slot>>

\* lines 135-190
HandleSquareClick1 ==
  /\ phase = "mounted" /\ variant = 1 /\ ~effectPending
  /\ \E game \in {chess}, next \in {Rebuild(chess)} :
     \E over \in {IsGameOver(game)}, ms \in {Moves(next)} :
     \E square \in Squares :
       \E piece \in {game.board[square]}, toMove \in {game.turn},
          r \in {EngineMoveIn(ms, next, selectedSquare, square, "q")} :
          IF over
          THEN Quiet(Op("handleSquareClick", "guard", Null, FALSE, NoMove))
          ELSE IF selectedSquare = Null
          THEN IF piece # NoPiece /\ piece.color = toMove
               THEN Select(square,
                           Op("handleSquareClick", "select", Null, FALSE, NoMove))
               ELSE Quiet(Op("handleSquareClick", "ignored", Null, FALSE, NoMove))
          ELSE IF selectedSquare = square
          THEN Deselect(Op("handleSquareClick", "deselect", Null, FALSE, NoMove))
          ELSE IF piece # NoPiece /\ piece.color = toMove
          THEN Select(square,
                      Op("handleSquareClick", "reselect", Null, FALSE, NoMove))
          ELSE IF r.ok
          THEN CommitMove(r.game, fen, r.move, pendingPromotion,
                          Op("handleSquareClick", "committed", Null, FALSE, r.move))
          ELSE \* next.move is outside any try: a throwing engine's rejection
               \* leaves the handler as an exception
               Quiet(Op("handleSquareClick", "rejected", Null, engineThrows, NoMove))
  /\ UNCHANGED <<build, slot>>

\* An undo that leaves White's capture list as it is.
CapturedWhiteKept(cw, undone) == cw

\* The capture list updates of undoMove (lines 202-208, 683-689)
CapturedWhiteUndone(cw, undone) ==
  IF undone.captured # Null /\ undone.color = "w" THEN Sliced(cw) ELSE cw

CapturedBlackUndone(cb, undone) ==
  IF undone.captured # Null /\ undone.color # "w" THEN Sliced(cb) ELSE cb

\* lines 192-216
UndoMove1 ==
  /\ phase = "mounted" /\ variant = 1 /\ ~effectPending
  /\ \E u \in {EngineUndo(Rebuild(chess))} :
        IF ~u.ok
        THEN Quiet(Op("undoMove", "nothing", Null, FALSE, NoMove))
        ELSE IF UpdaterThrows(moveLog)
        THEN Gone("crashed", Op("undoMove", "crash", Null, FALSE, u.move))
        ELSE /\ chess' = u.game
             /\ moveLog' = Sliced(moveLog)
             /\ capturedWhite' = CapturedWhiteUndone(capturedWhite, u.move)
             /\ capturedBlack' = CapturedBlackUndone(capturedBlack, u.move)
             /\ selectedSquare' = Null
             /\ legalMoves' = {}
             /\ effectPending' = TRUE
             /\ lastOp' = Op("undoMove", "undone", Null, FALSE, u.move)
             /\ UNCHANGED <<phase, fen, pendingPromotion>>
  /\ UNCHANGED <<build, slot>>

\* A reset that leaves the selection and the request alone.
FreshSessionKeepingSelection ==
  /\ chess' = NewChess
  /\ fen' = Fen(NewChess)
  /\ moveLog' = Arr(<<>>)
  /\ capturedWhite' = Arr(<<>>)
  /\ capturedBlack' = Arr(<<>>)
  /\ UNCHANGED <<selection, pendingPromotion>>

\* The state resetGame sets (lines 219-225, 701-708)
FreshSession ==
  /\ chess' = NewChess
  /\ fen' = Fen(NewChess)
  /\ moveLog' = Arr(<<>>)
  /\ capturedWhite' = Arr(<<>>)
  /\ capturedBlack' = Arr(<<>>)
  /\ selectedSquare' = Null
  /\ legalMoves' = {}
  /\ pendingPromotion' = NoPending

\* Whether the render after resetGame finds a changed effect dependency:
\* the new Chess object and the new [] arrays are new references.
ResetSchedulesEffect == TRUE

\* lines 218-227
ResetGame1 ==
  /\ phase = "mounted" /\ variant = 1 /\ ~effectPending
  /\ FreshSession
  /\ slot' = SlotAbsent
  /\ effectPending' = ResetSchedulesEffect
  /\ lastOp' = Op("resetGame", "reset", Null, FALSE, NoMove)
  /\ UNCHANGED <<build, phase>>

(***************************************************************************)
(* Variant 2 handlers (lines 545-714, 925-941)                             *)
(***************************************************************************)
\* The promotion overlay (lines 925-926) covers the viewport while a
\* request is pending: the board receives no drop and no click then.
BoardReachable == pendingPromotion = NoPending

\* A drop or click that never asks for the promotion piece.
NoPromotionNeededIn(ms, from, to) == FALSE

\* legalFrom.some((m) => m.to === target && m.promotion)
PromotionNeededIn(ms, from, to) ==
  \E m \in ms : m.from = from /\ m.to = to /\ m.promotion # Null

PromotionNeeded(g, from, to) == PromotionNeededIn(Moves(g), from, to)

PendingRequest(from, to, color) == [from |-> from, to |-> to, color |-> color]

\* lines 567-612
OnDrop2 ==
  /\ phase = "mounted" /\ variant = 2 /\ ~effectPending /\ BoardReachable
  /\ \E game \in {chess} :
     \E over \in {IsGameOver(game)}, ms \in {Moves(game)} :
     \E sourceSquare \in Squares, targetSquare \in Squares :
       \E piece \in {game.board[sourceSquare]},
          r \in {EngineMoveIn(ms, game, sourceSquare, targetSquare, "q")} :
          IF over \/ piece = NoPiece \/ piece.color # game.turn
          THEN Quiet(Op("onDrop", "guard", "false", FALSE, NoMove))
          ELSE IF PromotionNeededIn(ms, sourceSquare, targetSquare)
          THEN /\ pendingPromotion' =
                    PendingRequest(sourceSquare, targetSquare, piece.color)
               /\ selectedSquare' = Null
               /\ legalMoves' = {}
               /\ lastOp' = Op("onDrop", "promotion", "false", FALSE, NoMove)
               /\ UNCHANGED <<phase, session, effectPending>>
          ELSE IF r.ok
          THEN CommitMove(r.game, Fen(r.game), r.move, pendingPromotion,
                          Op("onDrop", "committed", "true", FALSE, r.move))
          ELSE \* null, or an exception caught at line 605
               Quiet(Op("onDrop", "rejected", "false", FALSE, NoMove))
  /\ UNCHANGED <<build, slot>>

\* lines 614-673
HandleSquareClick2 ==
  /\ phase = "mounted" /\ variant = 2 /\ ~effectPending /\ BoardReachable
  /\ \E game \in {chess} :
     \E over \in {IsGameOver(game)}, ms \in {Moves(game)} :
     \E square \in Squares :
       \E piece \in {game.board[square]}, toMove \in {game.turn},
          r \in {EngineMoveIn(ms, game, selectedSquare, square, "q")} :
          IF over
          THEN Quiet(Op("handleSquareClick", "guard", Null, FALSE, NoMove))
          ELSE IF selectedSquare = Null
          THEN IF piece # NoPiece /\ piece.color = toMove
               THEN Select(square,
                           Op("handleSquareClick", "select", Null, FALSE, NoMove))
               ELSE Quiet(Op("handleSquareClick", "ignored", Null, FALSE, NoMove))
          ELSE IF selectedSquare = square
          THEN Deselect(Op("handleSquareClick", "deselect", Null, FALSE, NoMove))
          ELSE IF piece # NoPiece /\ piece.color = toMove
          THEN Select(square,
                      Op("handleSquareClick", "reselect", Null, FALSE, NoMove))
          ELSE IF PromotionNeededIn(ms, selectedSquare, square)
          THEN /\ pendingPromotion' =
                    PendingRequest(selectedSquare, square,
                                   game.board[selectedSquare].color)
               /\ lastOp' = Op("handleSquareClick", "promotion", Null, FALSE, NoMove)
               /\ UNCHANGED <<phase, session, selection, effectPending>>
          ELSE IF r.ok
          THEN CommitMove(r.game, Fen(r.game), r.move, pendingPromotion,
                          Op("handleSquareClick", "committed", Null, FALSE, r.move))
          ELSE \* null, or an exception caught at line 670
               Quiet(Op("handleSquareClick", "rejected", Null, FALSE, NoMove))
  /\ UNCHANGED <<build, slot>>

\* lines 545-565, for each button of the overlay (line 929); also the call
\* with no request pending (line 548).
FinishPromotion ==
  /\ phase = "mounted" /\ variant = 2 /\ ~effectPending
  /\ \E ms \in {Moves(chess)}, promotionPiece \in PromotionPieces :
       \E from \in {pendingPromotion.from}, to \in {pendingPromotion.to} :
       \E r \in {EngineMoveIn(ms, chess, from, to, promotionPiece)} :
          IF from = Null \/ to = Null
          THEN /\ pendingPromotion' = NoPending
               /\ lastOp' = Op("finishPromotion", "norequest", Null, FALSE, NoMove)
               /\ UNCHANGED <<phase, session, selection, effectPending>>
          ELSE IF r.ok
          THEN CommitMove(r.game, Fen(r.game), r.move, NoPending,
                          Op("finishPromotion", "committed", Null, FALSE, r.move))
          ELSE /\ pendingPromotion' = NoPending
               /\ lastOp' = Op("finishPromotion", "rejected", Null, FALSE, NoMove)
               /\ UNCHANGED <<phase, session, selection, effectPending>>
  /\ UNCHANGED <<build, slot>>

\* lines 925 and 934: the overlay click and the Cancel button
CancelPromotion ==
  /\ phase = "mounted" /\ variant = 2 /\ ~effectPending
  /\ pendingPromotion # NoPending
  /\ pendingPromotion' = NoPending
  /\ lastOp' = Op("cancelPromotion", "cancelled", Null, FALSE, NoMove)
  /\ UNCHANGED <<build, slot, phase, session, selection, effectPending>>

\* lines 676-697
UndoMove2 ==
  /\ phase = "mounted" /\ variant = 2 /\ ~effectPending
  /\ \E u \in {EngineUndo(chess)} :
        IF ~u.ok
        THEN /\ selectedSquare' = Null
             /\ legalMoves' = {}
             /\ pendingPromotion' = NoPending
             /\ lastOp' = Op("undoMove", "nothing", Null, FALSE, NoMove)
             /\ UNCHANGED <<phase, session, effectPending>>
        ELSE IF UpdaterThrows(moveLog)
        THEN Gone("crashed", Op("undoMove", "crash", Null, FALSE, u.move))
        ELSE /\ chess' = u.game
             /\ fen' = Fen(u.game)
             /\ moveLog' = Sliced(moveLog)
             /\ capturedWhite' = CapturedWhiteUndone(capturedWhite, u.move)
             /\ capturedBlack' = CapturedBlackUndone(capturedBlack, u.move)
             /\ selectedSquare' = Null
             /\ legalMoves' = {}
             /\ pendingPromotion' = NoPending
             /\ effectPending' = TRUE
             /\ lastOp' = Op("undoMove", "undone", Null, FALSE, u.move)
             /\ UNCHANGED phase
  /\ UNCHANGED <<build, slot>>

\* lines 700-714
ResetGame2 ==
  /\ phase = "mounted" /\ variant = 2 /\ ~effectPending
  /\ FreshSession
  /\ slot' = SlotAbsent
  /\ effectPending' = ResetSchedulesEffect
  /\ lastOp' = Op("resetGame", "reset", Null, FALSE, NoMove)
  /\ UNCHANGED <<build, phase>>

Init ==
  /\ variant \in {1, 2}
  /\ engineThrows \in BOOLEAN
  /\ slot \in InitSlots
  /\ phase = "unmounted"
  /\ chess = NewChess
  /\ fen = StartFen
  /\ moveLog = Arr(<<>>)
  /\ capturedWhite = Arr(<<>>)
  /\ capturedBlack = Arr(<<>>)
  /\ selectedSquare = Null
  /\ legalMoves = {}
  /\ pendingPromotion = NoPending
  /\ effectPending = FALSE
  /\ lastOp = Op("none", "none", Null, FALSE, NoMove)

Next ==
  \/ Mount
  \/ Reload
  \/ PersistEffect
  \/ OnDrop1
  \/ HandleSquareClick1
  \/ UndoMove1
  \/ ResetGame1
  \/ OnDrop2
  \/ HandleSquareClick2
  \/ FinishPromotion
  \/ CancelPromotion
  \/ UndoMove2
  \/ ResetGame2

Spec == Init /\ [][Next]_vars

\* The component first mounted with no slot in storage.
InitFresh == Init /\ slot = SlotAbsent
SpecFresh == InitFresh /\ [][Next]_vars

(***************************************************************************)
(* The status line (lines 229-238 and 717-728), as a function of the       *)
(* engine's position, over positions of two kings and at most one more     *)
(* piece                                                                   *)
(***************************************************************************)
\* A status line that tests for check before the end of the game.
GetGameStatusCheckFirst(g) ==
  IF InCheck(g) THEN "Check!"
  ELSE IF IsGameOver(g)
  THEN IF IsCheckmate(g) THEN "Checkmate!"
       ELSE IF IsDraw(g) THEN "Draw!"
       ELSE IF IsStalemate(g) THEN "Stalemate!"
       ELSE "Game Over!"
  ELSE (IF g.turn = "w" THEN "White" ELSE "Black") \o " to move"

GetGameStatus(g) ==
  IF IsGameOver(g)
  THEN IF IsCheckmate(g) THEN "Checkmate!"
       ELSE IF IsDraw(g) THEN "Draw!"
       ELSE IF IsStalemate(g) THEN "Stalemate!"
       ELSE "Game Over!"
  ELSE IF InCheck(g) THEN "Check!"
  ELSE (IF g.turn = "w" THEN "White" ELSE "Black") \o " to move"

\* The third piece of a status position: none, or one of these.
ThirdPieces == {NoPiece, Pc("q", "w"), Pc("r", "w"), Pc("q", "b")}

Placed(wk, bk, x, xsq) ==
  [sq \in Squares |->
     IF sq = wk THEN Pc("k", "w")
     ELSE IF sq = bk THEN Pc("k", "b")
     ELSE IF sq = xsq THEN x
     ELSE NoPiece]

Adjacent(a, b) ==
  /\ a # b
  /\ Abs(FileIdx[a] - FileIdx[b]) <= 1
  /\ Abs(RankIdx[a] - RankIdx[b]) <= 1

\* Positions a game can be in: the kings apart, the side that just moved
\* not in check.
StatusPositions ==
  {g \in {[board |-> Placed(wk, bk, x, xsq), turn |-> t, history |-> <<>>] :
            wk \in Squares, bk \in Squares, x \in ThirdPieces,
            xsq \in Squares, t \in Colors} :
     /\ Cardinality({sq \in Squares : g.board[sq].type = "k"}) = 2
     /\ ~Adjacent(KingSquare(g.board, "w"), KingSquare(g.board, "b"))
     /\ ~InCheckBoard(g.board, Other(g.turn))}

InitStatus ==
  /\ variant \in {1, 2}
  /\ engineThrows = FALSE
  /\ slot = SlotAbsent
  /\ phase = "mounted"
  /\ chess \in StatusPositions
  /\ fen = Fen(chess)
  /\ moveLog = Arr(<<>>)
  /\ capturedWhite = Arr(<<>>)
  /\ capturedBlack = Arr(<<>>)
  /\ selectedSquare = Null
  /\ legalMoves = {}
  /\ pendingPromotion = NoPending
  /\ effectPending = FALSE
  /\ lastOp = Op("none", "none", Null, FALSE, NoMove)

\* The render calls getGameStatus() (lines 337, 853); lastOp.ret is the
\* text it returned.
ShowStatus ==
  /\ phase = "mounted"
  /\ lastOp' = Op("getGameStatus", "shown", GetGameStatus(chess), FALSE, NoMove)
  /\ UNCHANGED <<build, phase, session, selection, pendingPromotion, slot,
                 effectPending>>

NextStatus == ShowStatus

SpecStatus == InitStatus /\ [][NextStatus]_vars

(***************************************************************************)
(* Properties                                                              *)
(***************************************************************************)
AllButLast(seq) == SubSeq(seq, 1, Len(seq) - 1)

\* This step is a call of handler `op` (with the render that follows it).
Handled(op) ==
  /\ phase = "mounted" /\ ~effectPending
  /\ lastOp'.op = op

SideName(c) == IF c = "w" THEN "White" ELSE "Black"

IsFreshSession ==
  /\ Position = StartFen
  /\ chess = NewChess
  /\ moveLog = Arr(<<>>)
  /\ capturedWhite = Arr(<<>>)
  /\ capturedBlack = Arr(<<>>)

\* C1 (as claimed): undoMove right after a committed move undoes that move: the position
\* shown is again the one shown before the move, the move log loses exactly
\* its last entry, the mover's capture list loses exactly its last entry if
\* the move captured and is unchanged otherwise, and the other capture list
\* is unchanged.
C1_UndoRestoresPriorSession ==
  [][(Handled("undoMove") /\ lastOp.outcome = "committed")
       => /\ lastOp'.outcome = "undone"
          /\ lastOp'.move = lastOp.move
          /\ Position' = lastOp.was
          /\ moveLog.items # <<>>
          /\ moveLog' = Arr(AllButLast(moveLog.items))
          /\ IF lastOp.move.captured = Null
             THEN capturedWhite' = capturedWhite /\ capturedBlack' = capturedBlack
             ELSE IF lastOp.move.color = "w"
             THEN /\ capturedWhite.items # <<>>
                  /\ capturedWhite' = Arr(AllButLast(capturedWhite.items))
                  /\ capturedBlack' = capturedBlack
             ELSE /\ capturedBlack.items # <<>>
                  /\ capturedBlack' = Arr(AllButLast(capturedBlack.items))
                  /\ capturedWhite' = capturedWhite]_vars

\* C2: in variant 2 a drop or second click on a legal promotion pair only
\* opens the request: position, move log and capture lists are unchanged,
\* pendingPromotion is {from, to, color} of that pair, onDrop returns false,
\* and no drop or click commits a promotion move; dismissing the request
\* leaves position, move log and capture lists unchanged.
C2_PromotionDefersCommit ==
  [][/\ (variant = 2 /\ (Handled("onDrop") \/ Handled("handleSquareClick")))
        => /\ lastOp'.move.promotion = Null
           /\ lastOp'.outcome = "promotion"
                => /\ UNCHANGED <<session, slot>>
                   /\ Position' = Position
                   /\ PromotionNeeded(chess, pendingPromotion'.from,
                                      pendingPromotion'.to)
                   /\ pendingPromotion'.color = chess.turn
                   /\ lastOp'.op = "onDrop" => lastOp'.ret = "false"
     /\ Handled("cancelPromotion")
        => /\ UNCHANGED <<session, slot>>
           /\ Position' = Position
           /\ pendingPromotion' = NoPending]_vars

C2_Witness ==
  /\ variant = 2 /\ phase = "mounted"
  /\ lastOp.op = "handleSquareClick" /\ lastOp.outcome = "promotion"
  /\ pendingPromotion # NoPending
  /\ pendingPromotion.from = selectedSquare
  /\ Position = lastOp.was

\* C3 (as claimed): finishPromotion with a request pending re-issues the
\* pending from/to move with the chosen piece, appends exactly one move log
\* entry for it (changes nothing in the session if the engine rejects it)
\* and leaves pendingPromotion null; with no request pending it changes
\* nothing in position, move log or capture lists.
C3_FinishPromotion ==
  [][Handled("finishPromotion")
       => /\ pendingPromotion' = NoPending
          /\ IF pendingPromotion = NoPending \/ lastOp'.move = NoMove
             THEN UNCHANGED session
             ELSE /\ lastOp'.move.from = pendingPromotion.from
                  /\ lastOp'.move.to = pendingPromotion.to
                  /\ lastOp'.move.promotion \in PromotionPieces
                  /\ chess' = EngineMove(chess, pendingPromotion.from,
                                         pendingPromotion.to,
                                         lastOp'.move.promotion).game
                  /\ Position' = Fen(chess')
                  /\ moveLog' = Arr(Append(moveLog.items,
                                           LogEntry(lastOp'.move)))]_vars

\* C4 (as claimed): once resetGame has run and the persistence effect its
\* render scheduled has run, the slot is absent.
C4_SlotAbsentAfterReset ==
  (phase = "mounted" /\ lastOp.op = "resetGame" /\ ~effectPending)
    => slot = SlotAbsent

\* The slot's position data cannot be restored.
Unrestorable(saved) ==
  /\ Parses(saved)
  /\ IF variant = 1
     THEN \/ ~IsArr(saved.history)
          \/ ReplayMoves(NewChess, saved.history.items, TRUE).threw
     ELSE \/ saved.fen.kind = "badfen"
          \/ /\ saved.fen.kind = "undefined"
             /\ saved.pgn.kind = "pgn"
             /\ ~LoadPgn(saved.pgn).ok

\* The state is the one the mount produced (its effect has not run yet).
JustMounted == phase = "mounted" /\ lastOp.op = "mount" /\ effectPending

\* C5 (as claimed): a slot that parses but whose position data cannot be
\* restored mounts an entirely fresh Session.
C5_UnrestorableMountsFresh ==
  (JustMounted /\ Unrestorable(slot)) => IsFreshSession

\* C6: a slot that is not parseable JSON mounts a fresh Session with no
\* selection, and no exception leaves an initializer.
C6_GarbageMountsFresh ==
  (slot.kind = "garbage" /\ phase # "unmounted")
    => /\ phase = "mounted"
       /\ ~lastOp.threw
       /\ IsFreshSession
       /\ selectedSquare = Null /\ legalMoves = {}
       /\ pendingPromotion = NoPending

C6_Witness ==
  slot.kind = "garbage" /\ phase = "mounted" /\ lastOp.op = "mount"

\* C7 (as claimed): whatever the slot holds, the mount, the renders and the
\* handlers raise no exception.
C7_NeverCrashes == phase # "crashed" /\ ~lastOp.threw

\* C8 (as claimed): a drop or click whose move the engine rejects leaves
\* position, move log and capture lists unchanged and no exception escapes.
C8_RejectionIsSilent ==
  [][(/\ phase = "mounted" /\ ~effectPending
      /\ lastOp'.op \in {"onDrop", "handleSquareClick"}
      /\ lastOp'.outcome = "rejected")
       => /\ phase' = "mounted"
          /\ ~lastOp'.threw
          /\ UNCHANGED session]_vars

RECURSIVE ReplayLog(_, _)
\* Plays, from g, the move each log entry names: the legal move whose log
\* entry it is.
ReplayLog(g, entries) ==
  IF entries = <<>> THEN [ok |-> TRUE, game |-> g]
  ELSE LET named == {m \in Moves(g) :
                       LogEntry(WithSan(g.board, m)) = Head(entries)}
       IN IF Cardinality(named) # 1 THEN [ok |-> FALSE, game |-> g]
          ELSE ReplayLog(MoveAmong(g, named).game, Tail(entries))

\* C9: from a first mount with no slot, after any moves, undos, resets and
\* reloads, replaying the move log from the start position gives the
\* position shown.
C9_LogReplaysToPosition ==
  phase = "mounted"
    => /\ IsArr(moveLog)
       /\ ReplayLog(NewChess, moveLog.items).ok
       /\ Fen(ReplayLog(NewChess, moveLog.items).game) = Position

C9_Witness ==
  /\ phase = "mounted" /\ variant = 2
  /\ lastOp.op = "undoMove" /\ lastOp.outcome = "undone"
  /\ Len(moveLog.items) = 1 /\ Position # StartFen

\* C10 (as claimed): every accepted move appends exactly one entry "White: <san>" or
\* "Black: <san>" naming the side that moved, appends the captured piece
\* type to the mover's capture list iff it captured, changes the position
\* and the side to move with the log, and clears the selection.
C10_AcceptedMoveIsRecorded ==
  [][(/\ (\/ Handled("onDrop") \/ Handled("handleSquareClick")
          \/ Handled("finishPromotion"))
      /\ lastOp'.move # NoMove)
       => LET m == lastOp'.move
              mover == chess.turn
              taken == chess.board[m.to].type
          IN /\ m \in {WithSan(chess.board, x) : x \in Moves(chess)}
             /\ moveLog' = Arr(Append(moveLog.items,
                                      SideName(mover) \o ": " \o m.san))
             /\ capturedWhite' =
                  IF taken # Null /\ mover = "w"
                  THEN Arr(Append(capturedWhite.items, taken))
                  ELSE capturedWhite
             /\ capturedBlack' =
                  IF taken # Null /\ mover = "b"
                  THEN Arr(Append(capturedBlack.items, taken))
                  ELSE capturedBlack
             /\ Position' = Fen(chess')
             /\ Position'.board = MoveBoard(chess.board, m.from, m.to,
                                            m.promotion)
             /\ Position'.turn = Other(mover)
             /\ selectedSquare' = Null
             /\ legalMoves' = {}]_vars

\* Everything a handler can change besides the record of its call.
component == <<phase, session, selection, pendingPromotion, slot, effectPending>>

\* C11: handleSquareClick with no selection changes nothing unless the
\* clicked square holds a piece of the side to move (and the game is not
\* over): selectedSquare stays null, legalMoves stays empty, and position,
\* move log, capture lists and pending promotion are unchanged.
C11_IdleClickIsNoOp ==
  [][(Handled("handleSquareClick") /\ selectedSquare = Null)
       => /\ lastOp'.outcome \in {"guard", "select", "ignored"}
          /\ IF lastOp'.outcome = "select"
             THEN /\ selectedSquare' # Null
                  /\ chess.board[selectedSquare'] # NoPiece
                  /\ chess.board[selectedSquare'].color = chess.turn
                  /\ ~IsGameOver(chess)
             ELSE /\ UNCHANGED component
                  /\ selectedSquare' = Null
                  /\ legalMoves' = {}]_vars

C11_Witness ==
  /\ phase = "mounted"
  /\ lastOp.op = "handleSquareClick" /\ lastOp.outcome = "ignored"
  /\ selectedSquare = Null /\ legalMoves = {}
  /\ moveLog.items # <<>>

\* C12: whenever the component is quiescent after a move, an undo or a
\* promotion resolution, the slot holds the serialization of the current
\* Session: the move history (variant 1) or the position and its pgn
\* (variant 2), the move log and both capture lists.
C12_SlotHoldsSession ==
  (/\ phase = "mounted" /\ ~effectPending
   /\ lastOp.op \in {"onDrop", "handleSquareClick", "finishPromotion",
                     "undoMove"}
   /\ lastOp.outcome \in {"committed", "undone"})
    => /\ slot.kind = "json"
       /\ slot.moveLog = moveLog
       /\ slot.capturedWhite = capturedWhite
       /\ slot.capturedBlack = capturedBlack
       /\ IF variant = 1
          THEN slot.history = Arr(chess.history)
          ELSE slot.fen = fen /\ slot.pgn = Pgn(chess)

C12_Witness ==
  /\ phase = "mounted" /\ ~effectPending
  /\ lastOp.op = "finishPromotion" /\ lastOp.outcome = "committed"
  /\ lastOp.move.captured # Null
  /\ slot.capturedWhite = capturedWhite
  /\ capturedWhite.items # <<>>

\* C13: from a first mount with no slot, unmounting once the persistence
\* effect has run and mounting again gives the same position and side to
\* move, the same move log and the same two capture lists, with no
\* selection and no pending promotion.  (The slot is what the unmounted
\* Session left; lastOp.was is the position it showed.)
C13_RemountRestoresSession ==
  [][/\ (Handled("reload") /\ phase = "mounted")
        => /\ lastOp'.was = Position
           /\ slot' = slot
           /\ slot.kind = "json"
           /\ slot.moveLog = moveLog
           /\ slot.capturedWhite = capturedWhite
           /\ slot.capturedBlack = capturedBlack
     /\ (lastOp.outcome = "unmounted" /\ lastOp'.op = "mount")
        => /\ phase' = "mounted"
           /\ Position' = lastOp.was
           /\ Fen(chess').turn = lastOp.was.turn
           /\ moveLog' = slot.moveLog
           /\ capturedWhite' = slot.capturedWhite
           /\ capturedBlack' = slot.capturedBlack
           /\ selectedSquare' = Null
           /\ legalMoves' = {}
           /\ pendingPromotion' = NoPending]_vars

C13_Witness ==
  /\ phase = "mounted"
  /\ lastOp.op = "mount" /\ lastOp.outcome = "mounted"
  /\ Len(moveLog.items) = 2
  /\ capturedBlack.items # <<>>
  /\ Position # StartFen

\* C14: resetGame from any state gives the start position with White to
\* move, an empty move log, empty capture lists, no selection, empty
\* legalMoves and no pending promotion: the Session a mount with an absent
\* slot produces.
C14_ResetGivesFreshSession ==
  [][Handled("resetGame")
       => /\ phase' = "mounted"
          /\ Position' = Fen(NewChess)
          /\ Position'.turn = "w"
          /\ chess' = NewChess
          /\ moveLog' = Arr(<<>>)
          /\ capturedWhite' = Arr(<<>>)
          /\ capturedBlack' = Arr(<<>>)
          /\ selectedSquare' = Null
          /\ legalMoves' = {}
          /\ pendingPromotion' = NoPending
          /\ chess' = InitGame(SlotAbsent, engineThrows)
          /\ <<chess', fen'>> = <<InitFen(SlotAbsent, engineThrows).chess,
                                  InitFen(SlotAbsent, engineThrows).fen>>
          /\ moveLog' = InitList(SlotAbsent, SlotAbsent.moveLog).value
          /\ capturedWhite' =
               InitList(SlotAbsent, SlotAbsent.capturedWhite).value
          /\ capturedBlack' =
               InitList(SlotAbsent, SlotAbsent.capturedBlack).value]_vars

C14_Witness ==
  /\ phase = "mounted"
  /\ lastOp.op = "resetGame"
  /\ lastOp.was.kind = "fen" /\ lastOp.was # StartFen
  /\ IsFreshSession
  /\ selectedSquare = Null /\ pendingPromotion = NoPending

\* C15 (as claimed): in variant 2 at most one of selectedSquare and
\* pendingPromotion is non-null in every reachable state.
C15_SelectionOrRequest ==
  (variant = 2 /\ phase = "mounted")
    => (selectedSquare = Null \/ pendingPromotion = NoPending)

\* C16 (as claimed): undoMove with no move for the engine to undo leaves
\* position, move log, capture lists, selectedSquare, legalMoves and
\* pending promotion unchanged.
C16_UndoNothingIsNoOp ==
  [][(Handled("undoMove") /\ chess.history = <<>>)
       => /\ lastOp'.outcome = "nothing"
          /\ UNCHANGED <<phase, session, slot>>
          /\ UNCHANGED <<selectedSquare, legalMoves, pendingPromotion>>]_vars

\* The side to move has no legal move, or neither side can mate.
GameEnded == Moves(chess) = {} \/ IsInsufficientMaterial(chess)

\* C17: while the game is over, or when the drag source holds no piece of
\* the side to move (the guard branch), onDrop returns false and leaves
\* position, move log, capture lists, selection and pending promotion
\* unchanged; while the game is over handleSquareClick changes nothing.
C17_GuardsChangeNothing ==
  [][/\ (Handled("onDrop") /\ (lastOp'.outcome = "guard" \/ GameEnded))
        => /\ lastOp'.outcome = "guard"
           /\ lastOp'.ret = "false"
           /\ ~lastOp'.threw
           /\ UNCHANGED component
     /\ (Handled("handleSquareClick") /\ GameEnded)
        => /\ lastOp'.outcome = "guard"
           /\ ~lastOp'.threw
           /\ UNCHANGED component]_vars

C17_Witness ==
  /\ phase = "mounted"
  /\ GameEnded
  /\ lastOp.op = "onDrop" /\ lastOp.outcome = "guard"
  /\ lastOp.ret = "false"
  /\ Len(moveLog.items) = 1

\* C18 (as claimed): in variant 1, whether the setGame updater runs inside
\* the call or in the next render, onDrop returns true exactly when the
\* drop committed a move to the Session and false exactly when the Session
\* is left unchanged (stated for the drops whose render succeeds).
C18_OnDropReportsCommit ==
  [][(variant = 1 /\ Handled("onDrop") /\ phase' = "mounted")
       => /\ lastOp'.ret \in {"true", "false"}
          /\ lastOp'.ret = "true" <=> session' # session
          /\ lastOp'.ret = "false" <=> UNCHANGED session]_vars

\* The ordered list of the status line: condition, text.
StatusTable(g) ==
  << <<IsCheckmate(g), "Checkmate!">>,
     <<IsDraw(g), "Draw!">>,
     <<IsStalemate(g), "Stalemate!">>,
     <<IsGameOver(g), "Game Over!">>,
     <<InCheck(g), "Check!">>,
     <<g.turn = "w", "White to move">>,
     <<g.turn = "b", "Black to move">> >>

FirstMatch(t) ==
  t[CHOOSE i \in DOMAIN t : t[i][1] /\ \A j \in 1..(i - 1) : ~t[j][1]][2]

\* C19: getGameStatus returns the text of the first entry that holds in
\* the list checkmate, draw, stalemate, game over, check, White to move,
\* Black to move, computed from the engine's position; the call stores
\* nothing in the component.
C19_StatusIsFirstMatch ==
  [][lastOp'.op = "getGameStatus"
       => /\ \E i \in DOMAIN StatusTable(chess) : StatusTable(chess)[i][1]
          /\ lastOp'.ret = FirstMatch(StatusTable(chess))
          /\ UNCHANGED component]_vars

C19_Witness ==
  /\ lastOp.op = "getGameStatus"
  /\ lastOp.ret = "Checkmate!"
  /\ InCheck(chess)

\* C20 (as claimed): in every state reached from a mount with an absent
\* slot, the number of move log entries equals the number of moves the
\* engine can undo.
C20_LogLengthIsUndoDepth ==
  phase = "mounted"
    => /\ IsArr(moveLog)
       /\ Len(moveLog.items) = Len(chess.history)

\* C21: in every reachable state a non-null selectedSquare holds a piece of
\* the side to move in the engine's current position and legalMoves is
\* exactly the set of the engine's legal target squares from it; with
\* selectedSquare null, legalMoves is empty.
C21_SelectionIsCurrent ==
  phase = "mounted"
    => IF selectedSquare = Null
       THEN legalMoves = {}
       ELSE /\ selectedSquare \in Squares
            /\ chess.board[selectedSquare] # NoPiece
            /\ chess.board[selectedSquare].color = chess.turn
            /\ legalMoves =
                 {sq \in Squares :
                    \E mv \in BoardMoves(chess.board, chess.turn) :
                       mv.from = selectedSquare /\ mv.to = sq}

C21_Witness ==
  /\ phase = "mounted"
  /\ selectedSquare # Null
  /\ chess.turn = "b"
  /\ chess.board[selectedSquare] = Pc("n", "b")
  /\ legalMoves # {}
  /\ Len(moveLog.items) = 1

RECURSIVE LogCaptures(_, _, _)
\* The piece types side c captures, in order, when the moves the log
\* entries name are played from g.
LogCaptures(g, entries, c) ==
  IF entries = <<>> THEN <<>>
  ELSE LET named == {mv \in Moves(g) :
                       LogEntry(WithSan(g.board, mv)) = Head(entries)}
           mv == CHOOSE x \in named : TRUE
       IN IF named = {} THEN <<>>
          ELSE (IF mv.color = c /\ mv.captured # Null
                THEN <<mv.captured>> ELSE <<>>)
               \o LogCaptures(MoveAmong(g, named).game, Tail(entries), c)

C23_FenIsEnginePosition ==
  (variant = 2 /\ phase = "mounted") => fen = Fen(chess)

\* C24: with a square selected, handleSquareClick on that square clears
\* selectedSquare and legalMoves, and on another square holding a piece of
\* the side to move selects it and recomputes legalMoves for it; in both
\* cases position, move log, capture lists and pending promotion are
\* unchanged and no move is attempted.
C24_ReselectAndDeselect ==
  [][(Handled("handleSquareClick") /\ selectedSquare # Null)
       => /\ lastOp'.outcome = "deselect"
             => /\ selectedSquare' = Null
                /\ legalMoves' = {}
                /\ lastOp'.move = NoMove /\ ~lastOp'.threw
                /\ UNCHANGED <<phase, session, pendingPromotion, slot,
                               effectPending>>
          /\ lastOp'.outcome = "reselect"
             => /\ selectedSquare' \in Squares \ {selectedSquare}
                /\ chess.board[selectedSquare'].color = chess.turn
                /\ legalMoves' =
                     {sq \in Squares :
                        \E mv \in BoardMoves(chess.board, chess.turn) :
                           mv.from = selectedSquare' /\ mv.to = sq}
                /\ lastOp'.move = NoMove /\ ~lastOp'.threw
                /\ UNCHANGED <<phase, session, pendingPromotion, slot,
                               effectPending>>
          /\ (selectedSquare' # selectedSquare /\ UNCHANGED session)
             => lastOp'.outcome \in {"deselect", "reselect"}
          /\ lastOp'.outcome \in {"deselect", "reselect"}
             => ~GameEnded]_vars

C24_Witness ==
  /\ phase = "mounted"
  /\ lastOp.op = "handleSquareClick" /\ lastOp.outcome = "reselect"
  /\ selectedSquare = "a3"
  /\ legalMoves # {}

=============================================================================
